---------------------------- MODULE Spec2Model ----------------------------
(***************************************************************************)
(* A model of transcription_pipeline.py: the TranscriptionPipeline class   *)
(* (format_time, extract_audio, transcribe, generate_subtitle_file, run)   *)
(* and the __main__ block that constructs and runs it.                     *)
(*                                                                         *)
(* Text is a sequence of one-character strings, so that formatting,        *)
(* suffix matching and path splitting are computed character by character. *)
(* A time in seconds is an integer number of ticks, TicksPerSecond ticks   *)
(* to the second.                                                          *)
(***************************************************************************)
EXTENDS Integers, Sequences, FiniteSets, TLC

VARIABLES
    pc,          \* position of the single thread of control
    model,       \* self.model: "unloaded", "loaded" or "failed"
    listing,     \* what os.listdir(input_dir) returns (the environment's)
    whisperOut,  \* the segment lists model.transcribe may return (the environment's)
    fs0,         \* the output directory when the process starts
    fs,          \* the output directory: path -> content
    videos,      \* run's local `videos`
    idx,         \* position of the for loop in `videos` (0 before the first)
    base_name,   \* run's local `base_name`
    audio_path,  \* run's local `audio_path`
    segments,    \* run's local `segments`
    f,           \* generate_subtitle_file's file object: path, write calls made, closed
    log,         \* the records handed to the logger, in order
    trace,       \* stage calls and their outcomes, in order
    segsOf,      \* per video index, the segments transcribe returned for it
    t_in,        \* format_time's argument (ticks) when checked on its own
    t_out        \* format_time's result when checked on its own

vars == <<pc, model, listing, whisperOut, fs0, fs, videos, idx, base_name,
          audio_path, segments, f, log, trace, segsOf, t_in, t_out>>

-----------------------------------------------------------------------------
(* Bounds of the model. *)

\* Ticks per second: times are multiples of 1/TicksPerSecond s (0.2 ms).
TicksPerSecond == 5000
\* Longest directory listing of the pipeline specification.
MaxFiles == 2
\* Longest directory listing of the scan specification.
MaxScan == 2
\* Longest segment list drawn entry by entry from Segments.
MaxSegs == 2
\* Length of the long segment lists (indices of two digits).
LongDoc == 11

-----------------------------------------------------------------------------
(* Text. *)

\* An unbound name, or None.
None == <<"none">>

\* No file object yet.
NoFile == [path |-> <<>>, writes |-> <<>>, closed |-> TRUE]

Digits == <<"0", "1", "2", "3", "4", "5", "6", "7", "8", "9">>

UpperCase == <<"A", "B", "C", "D", "E", "F", "G", "H", "I", "J", "K", "L", "M",
               "N", "O", "P", "Q", "R", "S", "T", "U", "V", "W", "X", "Y", "Z">>

LowerCase == <<"a", "b", "c", "d", "e", "f", "g", "h", "i", "j", "k", "l", "m",
               "n", "o", "p", "q", "r", "s", "t", "u", "v", "w", "x", "y", "z">>

NL == "\n"

\* str.lower() on one character.
LowerChar(c) ==
    IF \E i \in 1..Len(UpperCase) : UpperCase[i] = c
    THEN LowerCase[CHOOSE i \in 1..Len(UpperCase) : UpperCase[i] = c]
    ELSE c

\* str.lower()
Lower(s) == [i \in 1..Len(s) |-> LowerChar(s[i])]

\* str.endswith(suffix)
EndsWith(s, suffix) ==
    /\ Len(s) >= Len(suffix)
    /\ SubSeq(s, Len(s) - Len(suffix) + 1, Len(s)) = suffix

\* str(n) for an int n >= 0: decimal, no leading zeros.
RECURSIVE ToDecimal(_)
ToDecimal(n) ==
    IF n < 10 THEN <<Digits[n + 1]>>
    ELSE ToDecimal(n \div 10) \o <<Digits[(n % 10) + 1]>>

\* The format specs 02d and 03d: zero-padded on the left to at least w digits.
PadZero(n, w) ==
    LET d == ToDecimal(n)
    IN  IF Len(d) >= w THEN d
        ELSE [i \in 1..w |-> IF i <= w - Len(d) THEN "0" ELSE d[i - (w - Len(d))]]

-----------------------------------------------------------------------------
(* format_time *)

\* round(x) for x = num/den >= 0: to the nearest integer, a tie to the even one.
Round(num, den) ==
    LET q == num \div den
        r == num % den
    IN  IF 2 * r < den THEN q
        ELSE IF 2 * r > den THEN q + 1
        ELSE IF q % 2 = 0 THEN q ELSE q + 1

\* milliseconds = round((seconds - math.floor(seconds)) * 1000), seconds in ticks
\* and already reduced modulo 60.
MillisecondsClamped(ticks) ==
    LET ms == Round((ticks % TicksPerSecond) * 1000, TicksPerSecond)
    IN  IF ms > 999 THEN 999 ELSE ms

Milliseconds(ticks) == Round((ticks % TicksPerSecond) * 1000, TicksPerSecond)

format_time(ticks) ==
    LET hours    == ticks \div (3600 * TicksPerSecond)
        s1       == ticks % (3600 * TicksPerSecond)
        minutes  == s1 \div (60 * TicksPerSecond)
        s2       == s1 % (60 * TicksPerSecond)
        millis   == Milliseconds(s2)
        secs     == s2 \div TicksPerSecond
    IN  PadZero(hours, 2) \o <<":">> \o PadZero(minutes, 2) \o <<":">>
            \o PadZero(secs, 2) \o <<",">> \o PadZero(millis, 3)

-----------------------------------------------------------------------------
(* Paths. *)

\* settings.INPUT_DIR and settings.OUTPUT_DIR
InputDir == <<"i", "n">>
OutputDir == <<"o", "u", "t">>

\* str.rfind(c) + 1: the last position of c in s, 0 when there is none.
RFind(s, c) ==
    IF \E i \in 1..Len(s) : s[i] = c
    THEN CHOOSE i \in 1..Len(s) : s[i] = c /\ \A j \in (i + 1)..Len(s) : s[j] # c
    ELSE 0

\* os.path.join(d, name), name relative.
PathJoin(d, name) == d \o <<"/">> \o name

\* os.path.basename(p)
BaseName(p) == SubSeq(p, RFind(p, "/") + 1, Len(p))

\* os.path.splitext(p)[0] for p without a separator: cut at the last dot,
\* unless only dots come before it.
SplitExtRoot(p) ==
    LET dot == RFind(p, ".")
    IN  IF dot > 0 /\ \E i \in 1..(dot - 1) : p[i] # "."
        THEN SubSeq(p, 1, dot - 1)
        ELSE p

WavPath(base) == PathJoin(OutputDir, base \o <<".", "w", "a", "v">>)
SrtPath(base) == PathJoin(OutputDir, base \o <<".", "s", "r", "t">>)

-----------------------------------------------------------------------------
(* The environment's inputs. *)

\* sec + frac/10000 seconds, in ticks.
Ticks(sec, frac) == sec * TicksPerSecond + (frac * TicksPerSecond) \div 10000

SegHi    == [start |-> 0, end |-> Ticks(1, 0), text |-> <<"H", "i">>]
SegLate  == [start |-> Ticks(3661, 5000), end |-> Ticks(3662, 2500),
             text |-> <<"a", NL, "b">>]
SegEdge  == [start |-> Ticks(59, 9996), end |-> Ticks(60, 0), text |-> <<>>]
SegDigit == [start |-> Ticks(360000, 0), end |-> Ticks(360000, 14),
             text |-> <<"7">>]

Segments == {SegHi, SegLate, SegEdge, SegDigit}

RECURSIVE SeqsUpTo(_, _)
SeqsUpTo(S, n) ==
    IF n = 0 THEN {<<>>}
    ELSE LET shorter == SeqsUpTo(S, n - 1)
         IN  shorter \cup {Append(q, x) : q \in {r \in shorter : Len(r) = n - 1}, x \in S}

DistinctSeqs(S, n) ==
    {q \in SeqsUpTo(S, n) : \A i, j \in 1..Len(q) : i # j => q[i] # q[j]}

\* Segment lists of the subtitle specification: every short one, and long
\* ones whose indices reach two digits.
SrtOutputs ==
    SeqsUpTo(Segments, MaxSegs) \cup {[i \in 1..LongDoc |-> s] : s \in Segments}

\* Segment lists of the pipeline specification.
PipelineOutputs == {<<SegHi>>, <<SegLate, SegEdge>>}

NameAMp4 == <<"a", ".", "m", "p", "4">>
NameAMov == <<"a", ".", "M", "O", "V">>
NameBAvi == <<"b", ".", "a", "v", "i">>
NameTxt  == <<"n", ".", "t", "x", "t">>

PipelineNames == {NameAMp4, NameAMov, NameBAvi, NameTxt}

ScanNames ==
    { NameAMp4, NameAMov, NameTxt,
      <<"c", ".", "M", "k", "v">>,
      <<"d", ".", "a", "v", "i">>,
      <<"m", "p", "4">>,
      <<".", "m", "o", "v">>,
      <<"e", ".", "m", "p", "4", ".", "t", "x", "t">>,
      <<"f", ".", "m", "p", "4", "x">>,
      <<"g", ".", "m", "p", "3">> }

StaleSrt == [p \in {SrtPath(<<"a">>)} |-> <<"o", "l", "d", NL>>]
EmptyDir == [p \in {} |-> <<>>]

-----------------------------------------------------------------------------
(* Logging and the record of stage calls. *)

LogRec(level, msg, about) == [level |-> level, msg |-> msg, about |-> about]

Ev(kind, stage, i) == <<kind, stage, i>>

\* open(path, "a"): what the file held stays.
TruncatedAppend(dir, path) ==
    [q \in (DOMAIN dir) \cup {path} |-> IF q \in DOMAIN dir THEN dir[q] ELSE <<>>]

\* open(path, "w"): the file exists and is empty afterwards.
Truncated(dir, path) ==
    [q \in (DOMAIN dir) \cup {path} |-> IF q = path THEN <<>> ELSE dir[q]]

\* f.write(chunk) on the file at path.
Written(dir, path, chunk) ==
    [q \in (DOMAIN dir) \cup {path} |->
        IF q = path
        THEN (IF path \in DOMAIN dir THEN dir[path] ELSE <<>>) \o chunk
        ELSE dir[q]]

\* ffmpeg's output file, overwrite_output=True: the audio of one video.
PcmAudio(video) == <<"P", "C", "M", ":">> \o video

\* What ffmpeg may leave at its output path when it fails.
PartialAudio == <<"P", "C", "M", "?">>

Replaced(dir, path, content) ==
    [q \in (DOMAIN dir) \cup {path} |-> IF q = path THEN content ELSE dir[q]]

-----------------------------------------------------------------------------
(* generate_subtitle_file's block for one segment:                         *)
(* f"{index}\n{start} --> {end}\n{segment['text']}\n\n"                    *)

Arrow == <<" ", "-", "-", ">", " ">>

\* enumerate(segments) without start=1.
SubtitleBlockFromZero(index, segment) ==
    ToDecimal(index - 1) \o <<NL>>
        \o format_time(segment.start) \o Arrow \o format_time(segment.end) \o <<NL>>
        \o segment.text \o <<NL, NL>>

\* The block without its blank line.
SubtitleBlockNoBlank(index, segment) ==
    ToDecimal(index) \o <<NL>>
        \o format_time(segment.start) \o Arrow \o format_time(segment.end) \o <<NL>>
        \o segment.text \o <<NL>>

SubtitleBlock(index, segment) ==
    ToDecimal(index) \o <<NL>>
        \o format_time(segment.start) \o Arrow \o format_time(segment.end) \o <<NL>>
        \o segment.text \o <<NL, NL>>

-----------------------------------------------------------------------------
(* run's scan of the input directory. *)

VideoExtensions ==
    { <<".", "m", "p", "4">>, <<".", "m", "o", "v">>,
      <<".", "m", "k", "v">>, <<".", "a", "v", "i">> }

\* The match without .lower().
IsVideoNameCaseSensitive(name) == \E ext \in VideoExtensions : EndsWith(name, ext)

\* f.lower().endswith((".mp4", ".mov", ".mkv", ".avi"))
IsVideoName(name) == \E ext \in VideoExtensions : EndsWith(Lower(name), ext)

\* [os.path.join(self.input_dir, f) for f in os.listdir(...) if ...]
ScanVideos(entries) ==
    LET kept == SelectSeq(entries, IsVideoName)
    IN  [i \in 1..Len(kept) |-> PathJoin(InputDir, kept[i])]

-----------------------------------------------------------------------------
(* __main__ and __init__ *)

fmtVars == <<t_in, t_out>>
envVars == <<listing, whisperOut, fs0>>
locals  == <<base_name, audio_path, segments, f>>

\* setup_logging("transcription_pipeline")
SetupLogging ==
    /\ pc = "main"
    /\ pc' = "construct"
    /\ log' = Append(log, LogRec("INFO", "Logging initialized", <<>>))
    /\ UNCHANGED <<model, fs, videos, idx, trace, segsOf, locals, envVars, fmtVars>>

\* The failure of whisper.load_model swallowed: run is called all the same.
LoadModelFailCaught ==
    /\ pc = "construct"
    /\ pc' = "run"
    /\ model' = "failed"
    /\ UNCHANGED <<log, fs, videos, idx, trace, segsOf, locals, envVars, fmtVars>>

\* whisper.load_model raises: nothing catches it, the process ends.
LoadModelFail ==
    /\ pc = "construct"
    /\ pc' = "aborted"
    /\ model' = "failed"
    /\ UNCHANGED <<log, fs, videos, idx, trace, segsOf, locals, envVars, fmtVars>>

\* os.makedirs(self.output_dir) raises after the model is loaded.
MakedirsFail ==
    /\ pc = "construct"
    /\ pc' = "aborted"
    /\ model' = "loaded"
    /\ UNCHANGED <<log, fs, videos, idx, trace, segsOf, locals, envVars, fmtVars>>

\* __init__ returns; __main__ calls pipeline.run().
InitOk ==
    /\ pc = "construct"
    /\ pc' = "run"
    /\ model' = "loaded"
    /\ log' = Append(log, LogRec("INFO", "Initialized pipeline", <<>>))
    /\ UNCHANGED <<fs, videos, idx, trace, segsOf, locals, envVars, fmtVars>>

-----------------------------------------------------------------------------
(* run *)

\* The scan without the return on an empty result.
ScanNoEarlyReturn ==
    /\ pc = "run"
    /\ videos' = ScanVideos(listing)
    /\ log' = Append(log, LogRec("INFO", "Scanning input directory", InputDir))
    /\ pc' = "loop"
    /\ UNCHANGED <<model, fs, idx, trace, segsOf, locals, envVars, fmtVars>>

\* The scan, and the return when it finds nothing.
Scan ==
    /\ pc = "run"
    /\ videos' = ScanVideos(listing)
    /\ IF videos' = <<>>
       THEN /\ log' = log \o << LogRec("INFO", "Scanning input directory", InputDir),
                                LogRec("WARNING", "No video files found", InputDir) >>
            /\ pc' = "returned"
       ELSE /\ log' = Append(log, LogRec("INFO", "Scanning input directory", InputDir))
            /\ pc' = "loop"
    /\ UNCHANGED <<model, fs, idx, trace, segsOf, locals, envVars, fmtVars>>

\* The loop takes the next video and calls extract_audio, which runs ffmpeg.
StartVideo ==
    /\ pc = "loop"
    /\ idx < Len(videos)
    /\ idx' = idx + 1
    /\ base_name' = SplitExtRoot(BaseName(videos[idx + 1]))
    /\ log' = Append(log, LogRec("INFO", "Processing video", base_name'))
    /\ trace' = Append(trace, Ev("call", "extract_audio", idx + 1))
    /\ pc' = "extract"
    /\ UNCHANGED <<model, fs, videos, segsOf, audio_path, segments, f, envVars, fmtVars>>

\* ffmpeg.run succeeds; extract_audio returns and run calls transcribe.
ExtractOk ==
    /\ pc = "extract"
    /\ LET video == videos[idx]
           extracted_audio == WavPath(SplitExtRoot(BaseName(video)))
       IN  /\ fs' = Replaced(fs, extracted_audio, PcmAudio(video))
           /\ audio_path' = extracted_audio
           /\ log' = log \o << LogRec("INFO", "Extracted audio", extracted_audio),
                               LogRec("INFO", "Transcribing", BaseName(extracted_audio)) >>
    /\ trace' = trace \o << Ev("ok", "extract_audio", idx), Ev("call", "transcribe", idx) >>
    /\ pc' = "transcribe"
    /\ UNCHANGED <<model, videos, idx, segsOf, base_name, segments, f, envVars, fmtVars>>

\* ffmpeg fails: extract_audio logs and re-raises. What it wrote stays.
ExtractFail ==
    /\ pc = "extract"
    /\ LET video == videos[idx]
           extracted_audio == WavPath(SplitExtRoot(BaseName(video)))
       IN  /\ \/ fs' = fs
              \/ fs' = Replaced(fs, extracted_audio, PartialAudio)
           /\ log' = Append(log, LogRec("ERROR", "Failed to extract audio", video))
    /\ trace' = Append(trace, Ev("fail", "extract_audio", idx))
    /\ pc' = "except"
    /\ UNCHANGED <<model, videos, idx, segsOf, locals, envVars, fmtVars>>

\* model.transcribe returns; transcribe returns its segments and run calls
\* generate_subtitle_file, which is about to open its file.
TranscribeOk ==
    /\ pc = "transcribe"
    /\ \E result \in whisperOut :
          /\ segments' = [i \in 1..Len(result) |->
                            [start |-> result[i].start, end |-> result[i].end,
                             text |-> result[i].text]]
          /\ segsOf' = [i \in (DOMAIN segsOf) \cup {idx} |->
                            IF i = idx THEN segments' ELSE segsOf[i]]
    /\ log' = Append(log, LogRec("INFO", "Transcription complete", BaseName(audio_path)))
    /\ trace' = trace \o << Ev("ok", "transcribe", idx),
                            Ev("call", "generate_subtitle_file", idx) >>
    /\ pc' = "gen_open"
    /\ UNCHANGED <<model, fs, videos, idx, base_name, audio_path, f, envVars, fmtVars>>

\* model.transcribe raises: transcribe logs and re-raises.
TranscribeFail ==
    /\ pc = "transcribe"
    /\ log' = Append(log, LogRec("ERROR", "Transcription failed", audio_path))
    /\ trace' = Append(trace, Ev("fail", "transcribe", idx))
    /\ pc' = "except"
    /\ UNCHANGED <<model, fs, videos, idx, segsOf, locals, envVars, fmtVars>>

\* open(subtitle_path, "w") succeeds.
SubtitleOpen ==
    /\ pc = "gen_open"
    /\ LET subtitle_path == SrtPath(base_name)
       IN  /\ fs' = Truncated(fs, subtitle_path)
           /\ f' = [path |-> subtitle_path, writes |-> <<>>, closed |-> FALSE]
    /\ trace' = Append(trace, Ev("open", "generate_subtitle_file", idx))
    /\ pc' = "gen_write"
    /\ UNCHANGED <<model, videos, idx, log, segsOf, base_name, audio_path,
                   segments, envVars, fmtVars>>

\* open raises: generate_subtitle_file logs and re-raises; the path is untouched.
SubtitleOpenFail ==
    /\ pc = "gen_open"
    /\ log' = Append(log, LogRec("ERROR", "Failed to write subtitle file", base_name))
    /\ trace' = Append(trace, Ev("fail", "generate_subtitle_file", idx))
    /\ pc' = "except"
    /\ UNCHANGED <<model, fs, videos, idx, segsOf, locals, envVars, fmtVars>>

\* One iteration of `for index, segment in enumerate(segments, start=1)`.
SubtitleWrite ==
    /\ pc = "gen_write"
    /\ Len(f.writes) < Len(segments)
    /\ LET index == Len(f.writes) + 1
           chunk == SubtitleBlock(index, segments[index])
       IN  /\ f' = [f EXCEPT !.writes = Append(@, chunk)]
           /\ fs' = Written(fs, f.path, chunk)
    /\ UNCHANGED <<pc, model, videos, idx, log, trace, segsOf, base_name, audio_path,
                   segments, envVars, fmtVars>>

\* A write (or the close) raises: the with block closes the file with what
\* was written, generate_subtitle_file logs and re-raises.
SubtitleWriteFail ==
    /\ pc = "gen_write"
    /\ f' = [f EXCEPT !.closed = TRUE]
    /\ log' = Append(log, LogRec("ERROR", "Failed to write subtitle file", base_name))
    /\ trace' = Append(trace, Ev("fail", "generate_subtitle_file", idx))
    /\ pc' = "except"
    /\ UNCHANGED <<model, fs, videos, idx, segsOf, base_name, audio_path, segments,
                   envVars, fmtVars>>

\* The loop is over: the file is closed, generate_subtitle_file returns and
\* run goes on to the next video.
SubtitleClose ==
    /\ pc = "gen_write"
    /\ Len(f.writes) = Len(segments)
    /\ f' = [f EXCEPT !.closed = TRUE]
    /\ log' = Append(log, LogRec("INFO", "Subtitle file generated", f.path))
    /\ trace' = Append(trace, Ev("ok", "generate_subtitle_file", idx))
    /\ pc' = "loop"
    /\ UNCHANGED <<model, fs, videos, idx, segsOf, base_name, audio_path, segments,
                   envVars, fmtVars>>

\* The exception leaves run instead of being caught.
RunCatchRaise ==
    /\ pc = "except"
    /\ pc' = "aborted"
    /\ UNCHANGED <<log, model, fs, videos, idx, trace, segsOf, locals, envVars, fmtVars>>

\* The failed video is tried again.
RunCatchRetry ==
    /\ pc = "except"
    /\ log' = Append(log, LogRec("ERROR", "Error processing", videos[idx]))
    /\ idx' = idx - 1
    /\ pc' = "loop"
    /\ UNCHANGED <<model, fs, videos, trace, segsOf, locals, envVars, fmtVars>>

\* except Exception as e: log and continue.
RunCatch ==
    /\ pc = "except"
    /\ log' = Append(log, LogRec("ERROR", "Error processing", videos[idx]))
    /\ pc' = "loop"
    /\ UNCHANGED <<model, fs, videos, idx, trace, segsOf, locals, envVars, fmtVars>>

\* The loop has no video left: run logs and returns.
RunReturn ==
    /\ pc = "loop"
    /\ idx = Len(videos)
    /\ log' = Append(log, LogRec("INFO", "Processing input directory complete", OutputDir))
    /\ pc' = "returned"
    /\ UNCHANGED <<model, fs, videos, idx, trace, segsOf, locals, envVars, fmtVars>>

-----------------------------------------------------------------------------
(* Specifications. *)

InitProcess ==
    /\ pc = "main"
    /\ model = "unloaded"
    /\ fs = fs0
    /\ videos = <<>>
    /\ idx = 0
    /\ base_name = None
    /\ audio_path = None
    /\ segments = <<>>
    /\ f = NoFile
    /\ log = <<>>
    /\ trace = <<>>
    /\ segsOf = [i \in {} |-> <<>>]
    /\ t_in = 0
    /\ t_out = None

\* The pipeline on short listings, over an empty or a used output directory.
\* os.listdir is taken to return: `listing` is what it returns.
Init ==
    /\ listing \in DistinctSeqs(PipelineNames, MaxFiles)
    /\ whisperOut = PipelineOutputs
    /\ fs0 \in {EmptyDir, StaleSrt}
    /\ InitProcess

\* The scan on listings of names that do and do not match.
InitScan ==
    /\ listing \in DistinctSeqs(ScanNames, MaxScan)
    /\ whisperOut = {<<SegHi>>}
    /\ fs0 = EmptyDir
    /\ InitProcess

\* The subtitle writer on one video and every segment list.
InitSrt ==
    /\ listing \in {<<>>, <<NameAMp4>>}
    /\ whisperOut = SrtOutputs
    /\ fs0 \in {EmptyDir, StaleSrt}
    /\ InitProcess

Next ==
    \/ SetupLogging
    \/ LoadModelFail
    \/ MakedirsFail
    \/ InitOk
    \/ Scan
    \/ StartVideo
    \/ ExtractOk
    \/ ExtractFail
    \/ TranscribeOk
    \/ TranscribeFail
    \/ SubtitleOpen
    \/ SubtitleOpenFail
    \/ SubtitleWrite
    \/ SubtitleWriteFail
    \/ SubtitleClose
    \/ RunCatch
    \/ RunReturn

Spec == Init /\ [][Next]_vars

\* Every blocking call (ffmpeg, the model, the file system) returns or raises.
SpecFair == Init /\ [][Next]_vars /\ WF_vars(Next)

SpecScan == InitScan /\ [][Next]_vars

SpecSrt == InitSrt /\ [][Next]_vars

-----------------------------------------------------------------------------
(* format_time on its own. *)

HourSamples == {0, 23, 100}
MinuteSamples == {0, 59}
SecondSamples == {0, 59}

TimeInputs ==
    { ((h * 60 + m) * 60 + s) * TicksPerSecond + fr :
        h \in HourSamples, m \in MinuteSamples, s \in SecondSamples,
        fr \in 0..(TicksPerSecond - 1) }

InitFmt ==
    /\ t_in \in TimeInputs
    /\ t_out = None
    /\ pc = "format_time"
    /\ model = "unloaded"
    /\ listing = <<>>
    /\ whisperOut = {}
    /\ fs0 = EmptyDir
    /\ fs = EmptyDir
    /\ videos = <<>>
    /\ idx = 0
    /\ base_name = None
    /\ audio_path = None
    /\ segments = <<>>
    /\ f = NoFile
    /\ log = <<>>
    /\ trace = <<>>
    /\ segsOf = [i \in {} |-> <<>>]

FormatTime ==
    /\ pc = "format_time"
    /\ t_out = None
    /\ t_out' = format_time(t_in)
    /\ UNCHANGED <<pc, model, fs, videos, idx, log, trace, segsOf, locals, envVars, t_in>>

NextFmt == FormatTime

SpecFmt == InitFmt /\ [][NextFmt]_vars

-----------------------------------------------------------------------------
(* Vocabulary of the properties. *)

Range(q) == {q[i] : i \in 1..Len(q)}

Stages == {"extract_audio", "transcribe", "generate_subtitle_file"}

Called(stage, i) == Ev("call", stage, i) \in Range(trace)
Succeeded(stage, i) == Ev("ok", stage, i) \in Range(trace)
AllStagesOk(i) == \A st \in Stages : Succeeded(st, i)
Failed(i) == \E st \in Stages : Ev("fail", st, i) \in Range(trace)
Opened(i) == Ev("open", "generate_subtitle_file", i) \in Range(trace)

Scanned == LogRec("INFO", "Scanning input directory", InputDir) \in Range(log)

\* The base name of the i-th scanned video: its name up to its last dot.
BaseOf(i) == SplitExtRoot(BaseName(videos[i]))

\* generate_subtitle_file has just returned normally.
JustSerialized ==
    /\ trace # <<>>
    /\ trace[Len(trace)] = Ev("ok", "generate_subtitle_file", idx)

RECURSIVE Concat(_)
Concat(chunks) ==
    IF chunks = <<>> THEN <<>>
    ELSE Concat(SubSeq(chunks, 1, Len(chunks) - 1)) \o chunks[Len(chunks)]

\* A chunk up to its first newline.
IndexLine(chunk) ==
    LET n == CHOOSE k \in 1..Len(chunk) : chunk[k] = NL /\ \A j \in 1..(k - 1) : chunk[j] # NL
    IN  SubSeq(chunk, 1, n - 1)

\* The document the specification describes for a segment list: per segment,
\* in order, four lines (index, times, text, blank), each ended by a newline.
RECURSIVE ExpectedDoc(_)
ExpectedDoc(segs) ==
    IF segs = <<>> THEN <<>>
    ELSE LET n == Len(segs)
             g == segs[n]
         IN  ExpectedDoc(SubSeq(segs, 1, n - 1))
                \o ToDecimal(n) \o <<NL>>
                \o format_time(g.start) \o <<" ", "-", "-", ">", " ">>
                \o format_time(g.end) \o <<NL>>
                \o g.text \o <<NL>>
                \o <<NL>>

\* The fields of s between the characters of seps.
RECURSIVE Split(_, _)
Split(s, seps) ==
    IF \E i \in 1..Len(s) : s[i] \in seps
    THEN LET k == CHOOSE i \in 1..Len(s) :
                     s[i] \in seps /\ \A j \in 1..(i - 1) : s[j] \notin seps
         IN  <<SubSeq(s, 1, k - 1)>> \o Split(SubSeq(s, k + 1, Len(s)), seps)
    ELSE <<s>>

IsDigits(s) == \A i \in 1..Len(s) : \E d \in 1..10 : Digits[d] = s[i]

RECURSIVE ToNat(_)
ToNat(s) ==
    IF s = <<>> THEN 0
    ELSE 10 * ToNat(SubSeq(s, 1, Len(s) - 1))
            + (CHOOSE d \in 0..9 : Digits[d + 1] = s[Len(s)])

-----------------------------------------------------------------------------
RunPost ==
    \A i \in 1..Len(videos) :
        /\ Called("extract_audio", i)
        /\ AllStagesOk(i) \/ Failed(i)
        /\ AllStagesOk(i) =>
              /\ SrtPath(BaseOf(i)) \in DOMAIN fs
              /\ SrtPath(BaseOf(i)) \in DOMAIN fs0 =>
                    fs[SrtPath(BaseOf(i))] # fs0[SrtPath(BaseOf(i))]
              /\ LogRec("INFO", "Subtitle file generated", SrtPath(BaseOf(i))) \in Range(log)
        /\ Failed(i) => LogRec("ERROR", "Error processing", videos[i]) \in Range(log)

(* C1: when run has returned, every scanned video had extract_audio called,  *)
(* every video whose three stages succeeded has its subtitle file in the     *)
(* output directory, written in this run, every failing video has its error  *)
(* logged by run, and every video either succeeded or failed; and once run   *)
(* is entered it returns (it never ends by an exception).                    *)
C1_FailureDoesNotStopRun ==
    /\ [](pc = "returned" => RunPost)
    /\ [](pc = "run" => <>(pc = "returned"))

\* A first video that failed and a second whose subtitle was written.
C1_Witness ==
    /\ pc = "returned"
    /\ Len(videos) = 2
    /\ Failed(1)
    /\ AllStagesOk(2)

-----------------------------------------------------------------------------
StageEvents == SelectSeq(trace, LAMBDA e : e[1] # "open")

Ended(i, k) ==
    \E j \in 1..(k - 1) :
        \/ StageEvents[j] = Ev("ok", "generate_subtitle_file", i)
        \/ StageEvents[j][1] = "fail" /\ StageEvents[j][3] = i

(* C9: the stage calls of a run, in order: no call is made twice; transcribe *)
(* is called for a video right after its extract_audio succeeded and         *)
(* generate_subtitle_file right after its transcribe succeeded; nothing      *)
(* follows a video's failure but the next video's extract_audio; and a       *)
(* video's extract_audio is called only when the video before it has ended.  *)
C9_StagesInOrderOnce ==
    \A k \in 1..Len(StageEvents) :
        LET e == StageEvents[k]
        IN  /\ \A j \in 1..Len(StageEvents) : j # k => StageEvents[j] # e
            /\ e[3] \in 1..idx
            /\ e = Ev("call", "transcribe", e[3]) =>
                   k > 1 /\ StageEvents[k - 1] = Ev("ok", "extract_audio", e[3])
            /\ e = Ev("call", "generate_subtitle_file", e[3]) =>
                   k > 1 /\ StageEvents[k - 1] = Ev("ok", "transcribe", e[3])
            /\ e[1] \in {"ok", "fail"} =>
                   k > 1 /\ StageEvents[k - 1] = Ev("call", e[2], e[3])
            /\ e = Ev("call", "extract_audio", e[3]) =>
                   /\ e[3] = 1 => k = 1
                   /\ e[3] > 1 => Ended(e[3] - 1, k)
            /\ (e[1] = "fail" /\ k < Len(StageEvents)) =>
                   StageEvents[k + 1] = Ev("call", "extract_audio", e[3] + 1)
            /\ (e = Ev("ok", "generate_subtitle_file", e[3]) /\ k < Len(StageEvents)) =>
                   StageEvents[k + 1] = Ev("call", "extract_audio", e[3] + 1)

\* A run of two videos: the first stopped at transcribe, the second went through.
C9_Witness ==
    /\ pc = "returned"
    /\ Len(videos) = 2
    /\ Ev("fail", "transcribe", 1) \in Range(trace)
    /\ AllStagesOk(2)

-----------------------------------------------------------------------------
(* C6: when the scan yields no video, run has logged the warning and         *)
(* returned: no stage was called, the output directory is as it was, and no  *)
(* error was logged.                                                         *)

C6_EmptyScanReturns ==
    (Scanned /\ videos = <<>>) =>
        /\ pc = "returned"
        /\ log[Len(log)] = LogRec("WARNING", "No video files found", InputDir)
        /\ trace = <<>>
        /\ fs = fs0
        /\ \A i \in 1..Len(log) : log[i].level # "ERROR"

\* A directory that holds entries, none of them a video.
C6_Witness ==
    /\ pc = "returned"
    /\ videos = <<>>
    /\ listing # <<>>

-----------------------------------------------------------------------------
(* C7: once loading the model has failed the process has ended: run never    *)
(* scans, no stage is called and the output directory is as it was.          *)

C7_LoadFailureAborts ==
    model = "failed" =>
        /\ pc = "aborted"
        /\ ~Scanned
        /\ videos = <<>>
        /\ trace = <<>>
        /\ fs = fs0

\* The model failed to load although the directory holds a video.
C7_Witness ==
    /\ model = "failed"
    /\ \E i \in 1..Len(listing) : IsVideoName(listing[i])

-----------------------------------------------------------------------------
SuffixMatches(name, ext) ==
    /\ Len(name) >= Len(ext)
    /\ \A k \in 1..Len(ext) : LowerChar(name[Len(name) - Len(ext) + k]) = ext[k]

Recognized(name) ==
    \E ext \in { <<".", "m", "p", "4">>, <<".", "m", "o", "v">>,
                 <<".", "m", "k", "v">>, <<".", "a", "v", "i">> } :
        SuffixMatches(name, ext)

(* C5: after the scan, `videos` holds, in the listing's order, the paths of  *)
(* exactly the entries whose last four characters, each lowered, spell one   *)
(* of the four extensions; every stage call, and every file the run adds to  *)
(* the output directory, belongs to one of them.                             *)
C5_ScanSelectsVideoSuffixes ==
    Scanned =>
        /\ \A i \in 1..Len(listing) :
              Recognized(listing[i]) <=> (InputDir \o <<"/">> \o listing[i]) \in Range(videos)
        /\ \A i \in 1..Len(videos) : \E j \in 1..Len(listing) :
              videos[i] = InputDir \o <<"/">> \o listing[j]
        /\ \A i, j \in 1..Len(videos) : i < j =>
              \E a, b \in 1..Len(listing) :
                  /\ a < b
                  /\ videos[i] = InputDir \o <<"/">> \o listing[a]
                  /\ videos[j] = InputDir \o <<"/">> \o listing[b]
        /\ \A e \in Range(trace) : e[3] \in 1..Len(videos)
        /\ \A p \in (DOMAIN fs) \ (DOMAIN fs0) :
              \E j \in 1..Len(listing) :
                  /\ Recognized(listing[j])
                  /\ p \in {WavPath(SplitExtRoot(listing[j])), SrtPath(SplitExtRoot(listing[j]))}

\* An upper-case .MOV kept and a .txt left out.
C5_Witness ==
    /\ Scanned
    /\ listing = <<NameTxt, NameAMov>>
    /\ videos = <<InputDir \o <<"/">> \o NameAMov>>
    /\ pc = "returned"

-----------------------------------------------------------------------------
(* C2: the write calls of generate_subtitle_file make up the file; the k-th  *)
(* of them starts with the line k; and when generate_subtitle_file returns   *)
(* there are as many as segments.                                            *)

C2_IndicesByPosition ==
    (f # NoFile) =>
        /\ fs[f.path] = Concat(f.writes)
        /\ \A k \in 1..Len(f.writes) : IndexLine(f.writes[k]) = ToDecimal(k)
        /\ JustSerialized => Len(f.writes) = Len(segments)

\* A document whose indices reach two digits.
C2_Witness ==
    /\ JustSerialized
    /\ Len(segments) >= 10
    /\ Len(f.writes) = Len(segments)

-----------------------------------------------------------------------------
(* C3: when generate_subtitle_file returns, the file at its path holds the   *)
(* document of the segments it was given, and nothing else; for no segment   *)
(* that is the empty file.                                                   *)

C3_ContentIsBlocksInOrder ==
    JustSerialized =>
        /\ SrtPath(base_name) \in DOMAIN fs
        /\ fs[SrtPath(base_name)] = ExpectedDoc(segments)
        /\ segments = <<>> => fs[SrtPath(base_name)] = <<>>

\* A text with a newline in it and an empty text, written over an older file.
C3_Witness ==
    /\ JustSerialized
    /\ segments = <<SegLate, SegEdge>>
    /\ SrtPath(base_name) \in DOMAIN fs0

-----------------------------------------------------------------------------
SameBase(i) == {j \in 1..Len(videos) : BaseOf(j) = BaseOf(i)}

Max(S) == CHOOSE m \in S : \A x \in S : x <= m

(* C10, as stated, in the case where an earlier video of the base name has  *)
(* had its subtitle written: when run has returned and two scanned videos    *)
(* share a base name, their .wav paths and their .srt paths are the same,    *)
(* and the .srt holds the document of the last video of that base name for   *)
(* which generate_subtitle_file was called, not the earlier one's.           *)
C10_LastSerializedWins ==
    pc = "returned" =>
        \A i, j \in 1..Len(videos) :
            (i < j /\ BaseOf(i) = BaseOf(j) /\ AllStagesOk(i)
                /\ Called("generate_subtitle_file", j)) =>
                LET reached == {k \in SameBase(i) : Called("generate_subtitle_file", k)}
                    p == SrtPath(BaseOf(i))
                IN  /\ WavPath(BaseOf(i)) = WavPath(BaseOf(j))
                    /\ SrtPath(BaseOf(i)) = SrtPath(BaseOf(j))
                    /\ p \in DOMAIN fs
                    /\ fs[p] = ExpectedDoc(segsOf[Max(reached)])

(* C10, amended: the .srt of a base name holds what the last video of that   *)
(* base name that opened it wrote: its whole document when its               *)
(* serialization succeeded, and otherwise the blocks written before the      *)
(* failure; a video whose serialization failed before opening the file       *)
(* leaves the path as it was. The .wav holds the audio of the last video of  *)
(* the base name whose extraction succeeded, unless a later extraction of    *)
(* that base name failed and left its partial output. When every video       *)
(* succeeds nothing but INFO records are logged.                             *)

C10_LastOpenerWins ==
    pc = "returned" =>
        /\ \A i \in 1..Len(videos) :
              LET openers   == {k \in SameBase(i) : Opened(k)}
                  extracted == {k \in SameBase(i) : Succeeded("extract_audio", k)}
                  p == SrtPath(BaseOf(i))
                  w == WavPath(BaseOf(i))
              IN  /\ openers = {} =>
                        /\ p \in DOMAIN fs <=> p \in DOMAIN fs0
                        /\ p \in DOMAIN fs => fs[p] = fs0[p]
                  /\ openers # {} =>
                        LET k == Max(openers)
                        IN  /\ p \in DOMAIN fs
                            /\ IF Succeeded("generate_subtitle_file", k)
                               THEN fs[p] = ExpectedDoc(segsOf[k])
                               ELSE \E n \in 0..Len(segsOf[k]) :
                                       fs[p] = ExpectedDoc(SubSeq(segsOf[k], 1, n))
                  /\ extracted # {} =>
                        LET k == Max(extracted)
                        IN  /\ w \in DOMAIN fs
                            /\ \/ fs[w] = PcmAudio(videos[k])
                               \/ /\ fs[w] = PartialAudio
                                  /\ \E j \in SameBase(i) : j > k
        /\ (videos # <<>> /\ \A i \in 1..Len(videos) : AllStagesOk(i)) =>
              \A r \in 1..Len(log) : log[r].level = "INFO"

\* Two videos of one base name, both serialized, with different segments.
C10_Witness ==
    /\ pc = "returned"
    /\ Len(videos) >= 2
    /\ BaseOf(1) = BaseOf(2)
    /\ AllStagesOk(1)
    /\ AllStagesOk(2)
    /\ segsOf[1] # segsOf[2]
    /\ fs[SrtPath(BaseOf(1))] = ExpectedDoc(segsOf[2])

-----------------------------------------------------------------------------
RoundsUpToSecond(ticks) == (ticks % TicksPerSecond) * 10000 >= 9995 * TicksPerSecond

-----------------------------------------------------------------------------
MatchesPattern(s) ==
    /\ Len(s) = 12
    /\ s[3] = ":" /\ s[6] = ":" /\ s[9] = ","
    /\ \A i \in {1, 2, 4, 5, 7, 8, 10, 11, 12} : IsDigits(<<s[i]>>)

\* The milliseconds a matching string reads as.
ParsedMillis(s) ==
    ((ToNat(SubSeq(s, 1, 2)) * 3600 + ToNat(SubSeq(s, 4, 5)) * 60
        + ToNat(SubSeq(s, 7, 8))) * 1000) + ToNat(SubSeq(s, 10, 12))

(* C4: for an input below 86400 s the result has the shape HH:MM:SS,mmm and  *)
(* read back as hours, minutes, seconds and milliseconds it is within 1 ms   *)
(* of the input.                                                             *)
C4_PatternAndRoundTrip ==
    (t_out # None /\ t_in < 86400 * TicksPerSecond) =>
        /\ MatchesPattern(t_out)
        /\ LET d == ParsedMillis(t_out) * TicksPerSecond - t_in * 1000
           IN  d <= TicksPerSecond /\ -d <= TicksPerSecond

=============================================================================
